---- MODULE Spec2Model ----
(***************************************************************************)
(* The rollouts demo application (src/rollouts/app-src/main.go): a HTTP    *)
(* service whose handlers take a behaviour decision from the process-wide  *)
(* BEHAVIOR mode and a random source, write a response and update the      *)
(* Prometheus request counter and request-duration histogram.              *)
(*                                                                         *)
(* Every request is served by a goroutine of its own; a goroutine's        *)
(* position in its handler is the pc of its slot.  The counter and the     *)
(* histogram are the only state the goroutines share, and the client       *)
(* library updates them atomically, so each update is one step.            *)
(*                                                                         *)
(* Durations are in milliseconds.  A rand.Float32() draw is one of         *)
(* DrawScale equally likely values f, standing for f / DrawScale.          *)
(***************************************************************************)
EXTENDS Integers, Sequences, FiniteSets, TLC

VARIABLES environ, version, behavior, port, hostname, versionGauge, server,
          reqs, made, requestCounter, requestDuration, engine, lookup, probe,
          calculations, completed, bmiReqs, gw

(***************************************************************************)
(* The state of the checks of single functions, which the server leaves    *)
(* alone.                                                                  *)
(***************************************************************************)
bmisvc == <<calculations, completed, bmiReqs>>
others == <<lookup, probe, bmisvc, gw>>

vars == <<environ, version, behavior, port, hostname, versionGauge, server,
          reqs, made, requestCounter, requestDuration, engine, others>>

(***************************************************************************)
(* What main and the package variables set, and no handler writes.         *)
(***************************************************************************)
process == <<environ, version, behavior, port, hostname, versionGauge, server>>

(***************************************************************************)
(* Bounds of the model.                                                    *)
(***************************************************************************)
MaxRequests == 2
DrawRes == 1
Jitter == 700

DrawScale == 10 * DrawRes
Draws == 0 .. (DrawScale - 1)
Slots == {"g1", "g2"}

(***************************************************************************)
(* Constants of the program.                                               *)
(***************************************************************************)
StatusOK == 200
StatusInternalServerError == 500
StatusServiceUnavailable == 503

SlowDelayBase == 200
SlowDelaySpan == 800
ErrorProneTenths == 5
ChaoticDelayTenths == 3
ChaoticDelayBase == 500
ChaoticDelaySpan == 1000
ChaoticErrorTenths == 4
HealthFailTenths == 3
ProcessDelayBase == 100
ProcessDelaySpan == 400
MicrosPerMilli == 1000

Modes == {"normal", "slow", "error-prone", "chaotic"}
EnvBehaviors == Modes \cup {"", "bogus"}

(***************************************************************************)
(* The environments the process is started in: the variables VERSION,      *)
(* BEHAVIOR and PORT ("" when unset or empty) and the result of            *)
(* os.Hostname().                                                          *)
(***************************************************************************)
HostOK == [name |-> "pod-1", err |-> FALSE]
HostErr == [name |-> "", err |-> TRUE]
Environments ==
    {[VERSION |-> "", BEHAVIOR |-> b, PORT |-> "", host |-> HostOK] : b \in EnvBehaviors}
      \cup {[VERSION |-> "2.0", BEHAVIOR |-> "normal", PORT |-> "9090", host |-> HostErr]}
Paths == {"/", "/health", "/api/data", "/api/process", "/other", "/metrics", "//other"}
Endpoints == {"/", "/health", "/api/data", "/api/process"}
Handlers == Endpoints \cup {"/metrics", "redirect"}
Requests == {<<"GET", p>> : p \in Paths \ {"/other"}} \cup {<<"POST", "/other">>}
ContentEndpoints == {"/", "/api/data", "/api/process"}
JSON == "application/json"
TextPlain == "text/plain; charset=utf-8"
Exposition == "text/plain; version=0.0.4; charset=utf-8"

(***************************************************************************)
(* The random source.  rand.Float32() < t/10 on a draw f of Draws.         *)
(* rand.Intn(n) returns a value of 0 .. n-1; the model takes the two ends  *)
(* of the range.                                                           *)
(***************************************************************************)
BelowOrEqual(f, tenths) == 10 * f <= tenths * DrawScale

Below(f, tenths) == 10 * f < tenths * DrawScale

IntnEnds(n) == {0, n - 1}

IntnArgs == {SlowDelaySpan, ChaoticDelaySpan}

RandSource ==
    { [f1 |-> a, f2 |-> b,
       intn |-> [n \in IntnArgs |-> IF n = SlowDelaySpan THEN x ELSE y]] :
         a \in Draws, b \in Draws,
         x \in IntnEnds(SlowDelaySpan), y \in IntnEnds(ChaoticDelaySpan) }

(***************************************************************************)
(* getEnv: the value of the variable unless it is empty or unset.          *)
(***************************************************************************)
getEnvNoDefault(value, defaultValue) == value

getEnvDefaultFirst(value, defaultValue) ==
    IF defaultValue # "" THEN defaultValue ELSE value

(***************************************************************************)
(* os.Getenv: the value of the variable, "" when it is not set.            *)
(***************************************************************************)
Getenv(env, key) == IF key \in DOMAIN env THEN env[key] ELSE ""

getEnv(value, defaultValue) == IF value # "" THEN value ELSE defaultValue

(***************************************************************************)
(* getHostname: the host name, or "unknown" when os.Hostname fails.        *)
(***************************************************************************)
getHostname(res) == IF res.err THEN "unknown" ELSE res.name

Decision(st, d) == [status |-> st, delay |-> d]

(***************************************************************************)
(* Slips of applyBehavior: normal falling into the error-prone case; the   *)
(* slow pause without its 200ms base; chaotic written as if/else; chaotic  *)
(* reusing its first draw for the error decision.                          *)
(***************************************************************************)
ErrorProneRule(rnd) ==
    Decision(IF 10 * rnd.f1 < ErrorProneTenths * DrawScale
               THEN StatusInternalServerError ELSE StatusOK, 0)

SlowRule(rnd, base) == Decision(StatusOK, base + rnd.intn[SlowDelaySpan])

ChaoticRule(rnd, f, exclusive) ==
    LET delayed == 10 * rnd.f1 < ChaoticDelayTenths * DrawScale
        failed == 10 * f < ChaoticErrorTenths * DrawScale IN
    Decision(IF failed /\ ~(exclusive /\ delayed) THEN StatusInternalServerError ELSE StatusOK,
             IF delayed THEN ChaoticDelayBase + rnd.intn[ChaoticDelaySpan] ELSE 0)

applyBehaviorNormalFalls(mode, rnd) ==
    CASE mode = "normal" -> ErrorProneRule(rnd)
      [] mode = "slow" -> SlowRule(rnd, SlowDelayBase)
      [] mode = "error-prone" -> ErrorProneRule(rnd)
      [] mode = "chaotic" -> ChaoticRule(rnd, rnd.f2, FALSE)
      [] OTHER -> Decision(StatusOK, 0)

applyBehaviorNoBase(mode, rnd) ==
    CASE mode = "normal" -> Decision(StatusOK, 0)
      [] mode = "slow" -> SlowRule(rnd, 0)
      [] mode = "error-prone" -> ErrorProneRule(rnd)
      [] mode = "chaotic" -> ChaoticRule(rnd, rnd.f2, FALSE)
      [] OTHER -> Decision(StatusOK, 0)

applyBehaviorElseIf(mode, rnd) ==
    CASE mode = "normal" -> Decision(StatusOK, 0)
      [] mode = "slow" -> SlowRule(rnd, SlowDelayBase)
      [] mode = "error-prone" -> ErrorProneRule(rnd)
      [] mode = "chaotic" -> ChaoticRule(rnd, rnd.f2, TRUE)
      [] OTHER -> Decision(StatusOK, 0)

applyBehaviorOneDraw(mode, rnd) ==
    CASE mode = "normal" -> Decision(StatusOK, 0)
      [] mode = "slow" -> SlowRule(rnd, SlowDelayBase)
      [] mode = "error-prone" -> ErrorProneRule(rnd)
      [] mode = "chaotic" -> ChaoticRule(rnd, rnd.f1, FALSE)
      [] OTHER -> Decision(StatusOK, 0)

(***************************************************************************)
(* An applyBehavior that opens a circuit once a 500 has been counted.      *)
(***************************************************************************)
applyBehaviorBreaker(mode, rnd) ==
    IF \E k \in DOMAIN requestCounter : k[3] = "500"
      THEN Decision(StatusInternalServerError, 0)
      ELSE CASE mode = "normal" -> Decision(StatusOK, 0)
             [] mode = "slow" -> SlowRule(rnd, SlowDelayBase)
             [] mode = "error-prone" -> ErrorProneRule(rnd)
             [] mode = "chaotic" -> ChaoticRule(rnd, rnd.f2, FALSE)
             [] OTHER -> Decision(StatusOK, 0)

(***************************************************************************)
(* applyBehavior: the decision (status, pause) of one request, from the    *)
(* mode and the draws it consumes in order: f1, intn, f2.                  *)
(***************************************************************************)
applyBehavior(mode, rnd) ==
    CASE mode = "normal" ->
           [status |-> StatusOK, delay |-> 0]
      [] mode = "slow" ->
           [status |-> StatusOK, delay |-> SlowDelayBase + rnd.intn[SlowDelaySpan]]
      [] mode = "error-prone" ->
           [status |-> IF Below(rnd.f1, ErrorProneTenths)
                         THEN StatusInternalServerError ELSE StatusOK,
            delay |-> 0]
      [] mode = "chaotic" ->
           [status |-> IF Below(rnd.f2, ChaoticErrorTenths)
                         THEN StatusInternalServerError ELSE StatusOK,
            delay |-> IF Below(rnd.f1, ChaoticDelayTenths)
                        THEN ChaoticDelayBase + rnd.intn[ChaoticDelaySpan] ELSE 0]
      [] OTHER ->
           [status |-> StatusOK, delay |-> 0]

(***************************************************************************)
(* The health handler's own rule.  The draw is taken only when the mode is *)
(* error-prone (the && does not evaluate its right side otherwise): draws  *)
(* is the sequence of Float32 draws the condition consumed.                *)
(***************************************************************************)
healthStatusHalf(mode, draws) ==
    IF mode = "error-prone" /\ 10 * draws[1] < ErrorProneTenths * DrawScale
      THEN StatusServiceUnavailable ELSE StatusOK

HealthDraws(mode) == IF mode = "error-prone" THEN {<<f>> : f \in Draws} ELSE {<<>>}

healthStatus(mode, draws) ==
    IF mode = "error-prone" /\ Below(draws[1], HealthFailTenths)
      THEN StatusServiceUnavailable ELSE StatusOK

(***************************************************************************)
(* getMessage: the k-th message of the mode's list, k = rand.Intn(len).    *)
(***************************************************************************)
messagesOrNormal(mode) ==
    CASE mode = "slow" -> <<"Service is experiencing delays",
                            "Processing taking longer than usual",
                            "High latency detected">>
      [] mode = "error-prone" -> <<"Service unstable",
                                   "Errors may occur",
                                   "Degraded performance">>
      [] mode = "chaotic" -> <<"Unpredictable behavior",
                               "System under stress",
                               "Erratic performance">>
      [] OTHER -> <<"Service operating normally",
                    "All systems functional",
                    "Request processed successfully">>

messages(mode) ==
    CASE mode = "normal" -> <<"Service operating normally",
                              "All systems functional",
                              "Request processed successfully">>
      [] mode = "slow" -> <<"Service is experiencing delays",
                            "Processing taking longer than usual",
                            "High latency detected">>
      [] mode = "error-prone" -> <<"Service unstable",
                                   "Errors may occur",
                                   "Degraded performance">>
      [] mode = "chaotic" -> <<"Unpredictable behavior",
                               "System under stress",
                               "Erratic performance">>
      [] OTHER -> <<>>

MessageDraws(mode) ==
    IF Len(messages(mode)) = 0 THEN {0} ELSE 0 .. (Len(messages(mode)) - 1)

getMessageFirst(mode, k) ==
    IF Len(messages(mode)) = 0 THEN "Unknown state" ELSE messages(mode)[1]

getMessage(mode, k) ==
    IF Len(messages(mode)) = 0 THEN "Unknown state" ELSE messages(mode)[k + 1]

(***************************************************************************)
(* The ServeMux: "/" takes every path no other pattern matches.            *)
(***************************************************************************)
RouteByPath(path) == path

Route(path) ==
    IF path \in {"/health", "/api/data", "/api/process", "/metrics"} THEN path ELSE "/"

(***************************************************************************)
(* The ServeMux cleans the request path first: a path with a repeated      *)
(* slash or a dot segment is answered with a redirect to the clean path,   *)
(* and no registered handler runs.                                         *)
(***************************************************************************)
cleanPath(path) == IF path = "//other" THEN "/other" ELSE path

Mux(path) == IF cleanPath(path) # path THEN "redirect" ELSE Route(path)

(***************************************************************************)
(* fmt.Sprintf("%d", status) on the statuses the handlers produce.         *)
(***************************************************************************)
Sprintf(status) ==
    CASE status = 200 -> "200"
      [] status = 500 -> "500"
      [] status = 503 -> "503"
      [] OTHER -> "?"

(***************************************************************************)
(* The label the handler gives the counter: the content handlers format    *)
(* the status, the health handler writes the literal of its branch.        *)
(***************************************************************************)
CounterLabelNominal(endpoint, status) == "200"

CounterLabel(endpoint, status) ==
    IF endpoint = "/health"
      THEN (IF status = StatusServiceUnavailable THEN "503" ELSE "200")
      ELSE Sprintf(status)

(***************************************************************************)
(* requestCounter.WithLabelValues(m, e, l).Inc() and                       *)
(* requestDuration.WithLabelValues(m, e).Observe(d): the sample is made    *)
(* on first use.                                                           *)
(***************************************************************************)
CounterIncLost(counter, m, e, l) ==
    LET key == <<m, e, l>> IN
    [k \in DOMAIN counter \cup {key} |-> IF k = key THEN 1 ELSE counter[k]]

CounterInc(counter, m, e, l) ==
    LET key == <<m, e, l>> IN
    [k \in DOMAIN counter \cup {key} |->
        IF k = key
          THEN (IF k \in DOMAIN counter THEN counter[k] + 1 ELSE 1)
          ELSE counter[k]]

HistObserveLost(hist, m, e) ==
    LET key == <<m, e>> IN
    [k \in DOMAIN hist \cup {key} |-> IF k = key THEN 1 ELSE hist[k]]

HistObserve(hist, m, e) ==
    LET key == <<m, e>> IN
    [k \in DOMAIN hist \cup {key} |->
        IF k = key
          THEN (IF k \in DOMAIN hist THEN hist[k] + 1 ELSE 1)
          ELSE hist[k]]

(***************************************************************************)
(* versionGauge.WithLabelValues(v, b, h).Set(x)                            *)
(***************************************************************************)
GaugeSetSwapped(gauge, v, b, h, x) ==
    [k \in DOMAIN gauge \cup {<<v, h, b>>} |-> IF k = <<v, h, b>> THEN x ELSE gauge[k]]

GaugeSet(gauge, v, b, h, x) ==
    [k \in DOMAIN gauge \cup {<<v, b, h>>} |-> IF k = <<v, b, h>> THEN x ELSE gauge[k]]

RECURSIVE SumOver(_, _)
SumOver(f, S) ==
    IF S = {} THEN 0
    ELSE LET k == CHOOSE x \in S : TRUE IN f[k] + SumOver(f, S \ {k})

CounterTotal(e) == SumOver(requestCounter, {k \in DOMAIN requestCounter : k[2] = e})
HistTotal(e) == SumOver(requestDuration, {k \in DOMAIN requestDuration : k[2] = e})
Accepted == SumOver(made, Handlers)

(***************************************************************************)
(* A goroutine's request.                                                  *)
(***************************************************************************)
Idle ==
    [pc |-> "idle", method |-> "", path |-> "", endpoint |-> "", decisions |-> 0,
     status |-> 0, delay |-> 0,
     paused |-> 0, label |-> "", incs |-> 0, obs |-> 0, written |-> 0,
     ctype |-> "", body |-> "", message |-> "", envelope |-> "", draws |-> <<>>,
     elapsed |-> 0, reported |-> 0, observed |-> 0]

(***************************************************************************)
(* time.Since(start), in microseconds: the pauses of the request so far    *)
(* (time.Sleep returns after at least its duration), no less than the      *)
(* last reading, plus what the handler's own work took: nothing or Jitter. *)
(* Duration.Milliseconds() drops the fraction of a millisecond.            *)
(***************************************************************************)
SinceNoSleep(r) == {r.elapsed + j : j \in {0, Jitter}}


Since(r) ==
    LET slept == r.paused * MicrosPerMilli
        floor == IF r.elapsed > slept THEN r.elapsed ELSE slept IN
    {floor + j : j \in {0, Jitter}}

MillisecondsRoundUp(d) == (d + MicrosPerMilli - 1) \div MicrosPerMilli

Milliseconds(d) == d \div MicrosPerMilli

NoDecision == [status |-> 0, delay |-> 0]
EngineIdle ==
    [on |-> FALSE, rnd |-> <<>>, decided |-> FALSE, decision |-> NoDecision,
     redecided |-> FALSE, again |-> NoDecision]

(***************************************************************************)
(* The package variables, before main runs.                                *)
(***************************************************************************)
InitProcess ==
    /\ environ \in Environments
    /\ version = getEnv(environ.VERSION, "1.0")
    /\ behavior = getEnv(environ.BEHAVIOR, "normal")
    /\ port = getEnv(environ.PORT, "8080")
    /\ hostname = getHostname(environ.host)
    /\ versionGauge = <<>>
    /\ server = "main"

LookupIdle == [on |-> FALSE, env |-> <<>>, key |-> "", done |-> FALSE, value |-> ""]

ProbeIdle == [on |-> FALSE, results |-> <<>>, services |-> <<>>, overall |-> ""]

BMIIdle ==
    [pc |-> "idle", op |-> "", weight |-> <<>>, height |-> <<>>, status |-> 0,
     entry |-> <<>>, local |-> <<>>, body |-> <<>>]

InitBMIService ==
    /\ calculations = <<>>
    /\ completed = <<>>
    /\ bmiReqs = [g \in Slots |-> BMIIdle]

GatewayIdle ==
    [on |-> FALSE, method |-> "", path |-> <<>>, stage |-> "", target |-> "",
     forwarded |-> <<>>, op |-> "", status |-> 0]

InitOthers ==
    /\ lookup = LookupIdle
    /\ probe = ProbeIdle
    /\ InitBMIService
    /\ gw = GatewayIdle

Init ==
    /\ InitProcess
    /\ reqs = [s \in Slots |-> Idle]
    /\ made = [e \in Handlers |-> 0]
    /\ requestCounter = <<>>
    /\ requestDuration = <<>>
    /\ engine = EngineIdle
    /\ InitOthers

(***************************************************************************)
(* main: the version gauge is set and the routes are registered.           *)
(***************************************************************************)
Main ==
    /\ server = "main"
    /\ versionGauge' = GaugeSet(versionGauge, version, behavior, hostname, 1)
    /\ server' = "listen"
    /\ UNCHANGED <<environ, version, behavior, port, hostname,
                   reqs, made, requestCounter, requestDuration, engine, others>>

(***************************************************************************)
(* server.ListenAndServe(): the port is bound and requests are served, or  *)
(* it returns an error and main calls os.Exit(1).                          *)
(***************************************************************************)
ListenAndServeStops ==
    /\ server \in {"listen", "serving"}
    /\ \/ server' = "serving"
       \/ server' = "exit1"
    /\ UNCHANGED <<environ, version, behavior, port, hostname, versionGauge,
                   reqs, made, requestCounter, requestDuration, engine, others>>

ListenAndServe ==
    /\ server = "listen"
    /\ \/ server' = "serving"
       \/ server' = "exit1"
    /\ UNCHANGED <<environ, version, behavior, port, hostname, versionGauge,
                   reqs, made, requestCounter, requestDuration, engine, others>>

(***************************************************************************)
(* The server accepts a request and its handler starts (start := now).     *)
(***************************************************************************)
Accept(s) ==
    /\ server = "serving"
    /\ reqs[s].pc \in {"idle", "done"}
    /\ Accepted < MaxRequests
    /\ \E rq \in Requests :
         LET e == Mux(rq[2]) IN
         /\ reqs' = [reqs EXCEPT ![s] =
                       [Idle EXCEPT !.pc = CASE e = "/health" -> "health"
                                            [] e = "/metrics" -> "scrape"
                                            [] e = "redirect" -> "redirect"
                                            [] OTHER -> "apply",
                                    !.method = rq[1],
                                    !.path = rq[2],
                                    !.endpoint = e]]
         /\ made' = [made EXCEPT ![e] = @ + 1]
    /\ UNCHANGED <<process, requestCounter, requestDuration, engine, others>>

(***************************************************************************)
(* An applyBehavior whose default case stores "normal" in the mode.        *)
(***************************************************************************)
ApplyBehaviorNormalises(s) ==
    /\ reqs[s].pc = "apply"
    /\ \E d \in {applyBehavior(behavior, rnd) : rnd \in RandSource} :
         reqs' = [reqs EXCEPT ![s].status = d.status,
                              ![s].delay = d.delay,
                              ![s].decisions = @ + 1,
                              ![s].pc = IF d.delay > 0 THEN "sleep" ELSE "count"]
    /\ behavior' = IF behavior \in Modes THEN behavior ELSE "normal"
    /\ UNCHANGED <<environ, version, port, hostname, versionGauge, server,
                   made, requestCounter, requestDuration, engine, others>>

(***************************************************************************)
(* A handler that asks applyBehavior again after a first 500.              *)
(***************************************************************************)
ApplyBehaviorRetry(s) ==
    /\ reqs[s].pc = "apply"
    /\ \E d \in {applyBehavior(behavior, rnd) : rnd \in RandSource} :
         reqs' = [reqs EXCEPT ![s].status = d.status,
                              ![s].delay = d.delay,
                              ![s].decisions = @ + 1,
                              ![s].pc = IF d.status # StatusOK /\ reqs[s].decisions = 0
                                          THEN "apply"
                                          ELSE IF d.delay > 0 THEN "sleep" ELSE "count"]
    /\ UNCHANGED <<process, made, requestCounter, requestDuration, engine, others>>

(***************************************************************************)
(* status := applyBehavior(w, r), up to its time.Sleep.                    *)
(***************************************************************************)
ApplyBehavior(s) ==
    /\ reqs[s].pc = "apply"
    /\ \E d \in {applyBehavior(behavior, rnd) : rnd \in RandSource} :
         reqs' = [reqs EXCEPT ![s].status = d.status,
                              ![s].delay = d.delay,
                              ![s].decisions = @ + 1,
                              ![s].pc = IF d.delay > 0 THEN "sleep" ELSE "count"]
    /\ UNCHANGED <<process, made, requestCounter, requestDuration, engine, others>>

(***************************************************************************)
(* time.Sleep(delay) inside applyBehavior returns.                         *)
(***************************************************************************)
SleepCancellable(s) ==
    /\ reqs[s].pc = "sleep"
    /\ \E slept \in {0, reqs[s].delay} :
         reqs' = [reqs EXCEPT ![s].paused = @ + slept,
                              ![s].delay = 0,
                              ![s].pc = "count"]
    /\ UNCHANGED <<process, made, requestCounter, requestDuration, engine, others>>

Sleep(s) ==
    /\ reqs[s].pc = "sleep"
    /\ reqs' = [reqs EXCEPT ![s].paused = @ + reqs[s].delay,
                            ![s].delay = 0,
                            ![s].pc = "count"]
    /\ UNCHANGED <<process, made, requestCounter, requestDuration, engine, others>>

(***************************************************************************)
(* handleHealth's condition.                                               *)
(***************************************************************************)
HealthCheck(s) ==
    /\ reqs[s].pc = "health"
    /\ \E d \in HealthDraws(behavior) :
         reqs' = [reqs EXCEPT ![s].status = healthStatus(behavior, d),
                              ![s].draws = d,
                              ![s].pc = "count"]
    /\ UNCHANGED <<process, made, requestCounter, requestDuration, engine, others>>

(***************************************************************************)
(* A handler that goes on to its response without the increment.           *)
(***************************************************************************)
IncCounterSkipped(s) ==
    /\ reqs[s].pc = "count"
    /\ reqs' = [reqs EXCEPT ![s].draws = <<>>, ![s].pc = "respond"]
    /\ UNCHANGED <<process, made, requestCounter, requestDuration, engine, others>>

(***************************************************************************)
(* requestCounter.WithLabelValues(r.Method, endpoint, label).Inc()         *)
(***************************************************************************)
IncCounter(s) ==
    /\ reqs[s].pc = "count"
    /\ LET r == reqs[s]
           l == CounterLabel(r.endpoint, r.status) IN
         /\ requestCounter' = CounterInc(requestCounter, r.method, r.endpoint, l)
         /\ reqs' = [reqs EXCEPT ![s].label = l,
                                 ![s].incs = @ + 1,
                                 ![s].draws = <<>>,
                                 ![s].pc = "respond"]
    /\ UNCHANGED <<process, made, requestDuration, engine, others>>

(***************************************************************************)
(* The response.  http.Error writes the status with a text/plain body; a   *)
(* 200 is the JSON body.                                                   *)
(***************************************************************************)
ErrorResponse(r) ==
    [r EXCEPT !.written = r.status, !.ctype = TextPlain, !.body = "text", !.pc = "observe"]

JSONResponse(r) ==
    [r EXCEPT !.written = StatusOK, !.ctype = JSON, !.body = "json", !.pc = "observe"]

(***************************************************************************)
(* handleHealth's 503: WriteHeader(503) and then the JSON body, with no    *)
(* Content-Type set by the handler, so the server gives the body the type  *)
(* it detects, which is text/plain.                                        *)
(***************************************************************************)
UnhealthyResponse(r) ==
    [r EXCEPT !.written = StatusServiceUnavailable, !.ctype = TextPlain, !.body = "json",
              !.pc = "observe"]

handleRoot(s) ==
    /\ reqs[s].pc = "respond"
    /\ reqs[s].endpoint = "/"
    /\ IF reqs[s].status # StatusOK
         THEN reqs' = [reqs EXCEPT ![s] = ErrorResponse(reqs[s])]
         ELSE \E k \in MessageDraws(behavior) :
                reqs' = [reqs EXCEPT ![s] =
                           [JSONResponse(reqs[s]) EXCEPT !.message = getMessage(behavior, k),
                                                         !.envelope = behavior]]
    /\ UNCHANGED <<process, made, requestCounter, requestDuration, engine, others>>

handleAPIData(s) ==
    /\ reqs[s].pc = "respond"
    /\ reqs[s].endpoint = "/api/data"
    /\ IF reqs[s].status # StatusOK
         THEN reqs' = [reqs EXCEPT ![s] = ErrorResponse(reqs[s])]
         ELSE reqs' = [reqs EXCEPT ![s] = JSONResponse(reqs[s])]
    /\ UNCHANGED <<process, made, requestCounter, requestDuration, engine, others>>

handleProcessAnyMode(s) ==
    /\ reqs[s].pc = "respond"
    /\ reqs[s].endpoint = "/api/process"
    /\ IF reqs[s].status # StatusOK
         THEN reqs' = [reqs EXCEPT ![s] = ErrorResponse(reqs[s])]
         ELSE \E n \in IntnEnds(ProcessDelaySpan) :
                reqs' = [reqs EXCEPT ![s].delay = ProcessDelayBase + n,
                                     ![s].pc = "sleep2"]
    /\ UNCHANGED <<process, made, requestCounter, requestDuration, engine, others>>

handleProcess(s) ==
    /\ reqs[s].pc = "respond"
    /\ reqs[s].endpoint = "/api/process"
    /\ IF reqs[s].status # StatusOK
         THEN reqs' = [reqs EXCEPT ![s] = ErrorResponse(reqs[s])]
         ELSE IF behavior = "slow"
           THEN \E n \in IntnEnds(ProcessDelaySpan) :
                  reqs' = [reqs EXCEPT ![s].delay = ProcessDelayBase + n,
                                       ![s].pc = "sleep2"]
           ELSE \E e \in Since(reqs[s]) :
                  reqs' = [reqs EXCEPT ![s] =
                             [JSONResponse(reqs[s]) EXCEPT !.elapsed = e,
                                                           !.reported = Milliseconds(e)]]
    /\ UNCHANGED <<process, made, requestCounter, requestDuration, engine, others>>

(***************************************************************************)
(* handleProcess's own time.Sleep returns and the body is written.         *)
(***************************************************************************)
handleProcessSlow(s) ==
    /\ reqs[s].pc = "sleep2"
    /\ LET r == [reqs[s] EXCEPT !.paused = @ + reqs[s].delay, !.delay = 0] IN
         \E e \in Since(r) :
            reqs' = [reqs EXCEPT ![s] =
                       [JSONResponse(r) EXCEPT !.elapsed = e, !.reported = Milliseconds(e)]]
    /\ UNCHANGED <<process, made, requestCounter, requestDuration, engine, others>>

(***************************************************************************)
(* handleHealth's response: the 503 or the JSON 200.                       *)
(***************************************************************************)
handleHealth(s) ==
    /\ reqs[s].pc = "respond"
    /\ reqs[s].endpoint = "/health"
    /\ IF reqs[s].status = StatusServiceUnavailable
         THEN reqs' = [reqs EXCEPT ![s] = UnhealthyResponse(reqs[s])]
         ELSE reqs' = [reqs EXCEPT ![s] = JSONResponse(reqs[s])]
    /\ UNCHANGED <<process, made, requestCounter, requestDuration, engine, others>>

(***************************************************************************)
(* The deferred requestDuration.WithLabelValues(...).Observe(duration).    *)
(***************************************************************************)
ObserveDuration(s) ==
    /\ reqs[s].pc = "observe"
    /\ requestDuration' = HistObserve(requestDuration, reqs[s].method, reqs[s].endpoint)
    /\ \E e \in Since(reqs[s]) :
         reqs' = [reqs EXCEPT ![s].obs = @ + 1,
                              ![s].elapsed = e,
                              ![s].observed = e,
                              ![s].pc = "done"]
    /\ UNCHANGED <<process, made, requestCounter, engine, others>>

(***************************************************************************)
(* promhttp.Handler(): the exposition of the three metrics is written.  It *)
(* reads the metrics and changes none of them.                             *)
(***************************************************************************)
ScrapeBlocked(s) ==
    /\ reqs[s].pc = "scrape"
    /\ \A t \in Slots : reqs[t].pc \notin {"sleep", "sleep2"}
    /\ reqs' = [reqs EXCEPT ![s].written = StatusOK,
                            ![s].ctype = Exposition,
                            ![s].body = "metrics",
                            ![s].pc = "done"]
    /\ UNCHANGED <<process, made, requestCounter, requestDuration, engine, others>>

Scrape(s) ==
    /\ reqs[s].pc = "scrape"
    /\ reqs' = [reqs EXCEPT ![s].written = StatusOK,
                            ![s].ctype = Exposition,
                            ![s].body = "metrics",
                            ![s].pc = "done"]
    /\ UNCHANGED <<process, made, requestCounter, requestDuration, engine, others>>

(***************************************************************************)
(* The mux's redirect to the clean path: a 301, written by no handler of   *)
(* main.go, so neither metric is touched.                                  *)
(***************************************************************************)
Redirect(s) ==
    /\ reqs[s].pc = "redirect"
    /\ reqs' = [reqs EXCEPT ![s].written = 301,
                            ![s].ctype = "text/html; charset=utf-8",
                            ![s].body = "html",
                            ![s].pc = "done"]
    /\ UNCHANGED <<process, made, requestCounter, requestDuration, engine, others>>

Step(s) ==
        \/ Accept(s)
        \/ ApplyBehavior(s)
        \/ Sleep(s)
        \/ HealthCheck(s)
        \/ IncCounter(s)
        \/ handleRoot(s)
        \/ handleAPIData(s)
        \/ handleProcess(s)
        \/ handleProcessSlow(s)
        \/ handleHealth(s)
        \/ ObserveDuration(s)
        \/ Scrape(s)
        \/ Redirect(s)

Next == Main \/ ListenAndServe \/ \E s \in Slots : Step(s)

Spec == Init /\ [][Next]_vars

(***************************************************************************)
(* The server under a fair scheduler: a goroutine that is inside a handler *)
(* is eventually run, and a time.Sleep eventually returns.  Accepting a    *)
(* request is the client's step and is not forced.                         *)
(***************************************************************************)
Handle(s) == reqs[s].pc \notin {"idle", "done"} /\ Step(s)
FairSpec == Spec /\ \A s \in Slots : WF_vars(Handle(s))

(***************************************************************************)
(* The behaviour rules on their own: the mode and the draws of one request *)
(* are taken from the whole draw space, and the rules are applied to them. *)
(***************************************************************************)
InitEngine ==
    /\ InitProcess
    /\ reqs = [s \in Slots |-> Idle]
    /\ made = [e \in Handlers |-> 0]
    /\ requestCounter = <<>>
    /\ requestDuration = <<>>
    /\ \E r \in RandSource : engine = [EngineIdle EXCEPT !.on = TRUE, !.rnd = r]
    /\ InitOthers

EngineDecide ==
    /\ engine.on
    /\ ~engine.decided
    /\ engine' = [engine EXCEPT !.decided = TRUE,
                                !.decision = applyBehavior(behavior, engine.rnd)]
    /\ UNCHANGED <<process, reqs, made, requestCounter, requestDuration, others>>

(***************************************************************************)
(* Other requests complete after the decision: each one counted and        *)
(* observed.  Then the rules are applied again to the same mode and draws, *)
(* as they are for a request that meets this history.                      *)
(***************************************************************************)
Histories == {<<"GET", "/", StatusInternalServerError>>, <<"GET", "/health", StatusOK>>}

EngineHistory ==
    /\ engine.decided
    /\ ~engine.redecided
    /\ Accepted < MaxRequests
    /\ \E h \in Histories :
         /\ made' = [made EXCEPT ![h[2]] = @ + 1]
         /\ requestCounter' = CounterInc(requestCounter, h[1], h[2], CounterLabel(h[2], h[3]))
         /\ requestDuration' = HistObserve(requestDuration, h[1], h[2])
    /\ UNCHANGED <<process, reqs, engine, others>>

EngineDecideAgain ==
    /\ engine.decided
    /\ ~engine.redecided
    /\ engine' = [engine EXCEPT !.redecided = TRUE,
                                !.again = applyBehavior(behavior, engine.rnd)]
    /\ UNCHANGED <<process, reqs, made, requestCounter, requestDuration, others>>

NextEngine == EngineDecide \/ EngineHistory \/ EngineDecideAgain

SpecEngine == InitEngine /\ [][NextEngine]_vars

(***************************************************************************)
(* The configuration lookup on its own: the package variables' calls of    *)
(* getEnv, over environments where each variable is not set, set to the    *)
(* empty string or set to a value.                                         *)
(***************************************************************************)
demo == <<process, reqs, made, requestCounter, requestDuration, engine>>

Defaults == [VERSION |-> "1.0", BEHAVIOR |-> "normal", PORT |-> "8080"]
Keys == DOMAIN Defaults
EnvValues == [VERSION |-> {"", "2.0"}, BEHAVIOR |-> {"", "slow", "bogus"}, PORT |-> {"", "9090"}]
EnvSpace ==
    UNION {[set -> UNION {EnvValues[k] : k \in Keys}] : set \in SUBSET Keys}
LookupSpace == {e \in EnvSpace : \A k \in DOMAIN e : e[k] \in EnvValues[k]}

IdleServer ==
    /\ InitProcess
    /\ reqs = [s \in Slots |-> Idle]
    /\ made = [e \in Handlers |-> 0]
    /\ requestCounter = <<>>
    /\ requestDuration = <<>>
    /\ engine = EngineIdle

InitConfig ==
    /\ IdleServer
    /\ environ = [VERSION |-> "", BEHAVIOR |-> "", PORT |-> "", host |-> HostOK]
    /\ \E e \in LookupSpace, k \in Keys :
         lookup = [LookupIdle EXCEPT !.on = TRUE, !.env = e, !.key = k]
    /\ probe = ProbeIdle
    /\ InitBMIService
    /\ gw = GatewayIdle

GetEnvCall ==
    /\ lookup.on
    /\ ~lookup.done
    /\ lookup' = [lookup EXCEPT !.done = TRUE,
                                !.value = getEnv(Getenv(lookup.env, lookup.key),
                                                 Defaults[lookup.key])]
    /\ UNCHANGED <<demo, probe, bmisvc, gw>>

NextConfig == GetEnvCall

SpecConfig == InitConfig /\ [][NextConfig]_vars

(***************************************************************************)
(* The health service (src/bmi-calculator/health-service/main.go): the     *)
(* aggregation of /health/services.  Each dependency's health GET either   *)
(* fails (err: refused, timed out after 2s) or returns a status code.      *)
(* servicesHealthHandler checks its dependencies in order and then derives *)
(* the overall status from the list of checks.                             *)
(***************************************************************************)
MaxServices == 3

GetError == [err |-> TRUE, code |-> 0]
GetResults ==
    {GetError} \cup {[err |-> FALSE, code |-> c] :
                       c \in {StatusOK, 204, StatusInternalServerError,
                              StatusServiceUnavailable}}

checkServiceHealth2xx(res) ==
    IF res.err THEN "unhealthy"
    ELSE IF res.code >= 200 /\ res.code < 300 THEN "healthy" ELSE "unhealthy"

checkServiceHealth(res) ==
    IF res.err THEN "unhealthy"
    ELSE IF res.code = StatusOK THEN "healthy" ELSE "unhealthy"

RECURSIVE getOverallStatus(_)
getOverallStatus(services) ==
    IF services = <<>> THEN "healthy"
    ELSE IF Head(services) = "unhealthy" THEN "degraded"
    ELSE getOverallStatus(Tail(services))

ResultLists == UNION {[1 .. n -> GetResults] : n \in 0 .. MaxServices}

InitHealth ==
    /\ IdleServer
    /\ environ = [VERSION |-> "", BEHAVIOR |-> "", PORT |-> "", host |-> HostOK]
    /\ lookup = LookupIdle
    /\ \E l \in ResultLists : probe = [ProbeIdle EXCEPT !.on = TRUE, !.results = l]
    /\ InitBMIService
    /\ gw = GatewayIdle

CheckService ==
    /\ probe.on
    /\ Len(probe.services) < Len(probe.results)
    /\ probe' = [probe EXCEPT !.services =
                    Append(@, checkServiceHealth(probe.results[Len(probe.services) + 1]))]
    /\ UNCHANGED <<demo, lookup, bmisvc, gw>>

servicesHealthHandler ==
    /\ probe.on
    /\ Len(probe.services) = Len(probe.results)
    /\ probe.overall = ""
    /\ probe' = [probe EXCEPT !.overall = getOverallStatus(probe.services)]
    /\ UNCHANGED <<demo, lookup, bmisvc, gw>>

NextHealth == CheckService \/ servicesHealthHandler

SpecHealth == InitHealth /\ [][NextHealth]_vars

(***************************************************************************)
(* The BMI service (the bmi-service main in src/rollouts/README.md).       *)
(*                                                                         *)
(* A float64 is a number, NaN or +Inf.  Weights are numbers of kg, heights *)
(* numbers of half metres, a BMI a number of hundredths of kg/m2, rounded  *)
(* down: the thresholds 18.5, 25 and 30 are whole hundredths, so comparing *)
(* the rounded value with them is comparing the BMI with them.             *)
(***************************************************************************)
Num(v) == [k |-> "num", v |-> v]
NaN == [k |-> "nan", v |-> 0]
Inf == [k |-> "inf", v |-> 0]
Unparsable == [k |-> "bad", v |-> 0]

Underweight == 1850
NormalWeight == 2500
Overweight == 3000

(***************************************************************************)
(* x <= 0 and x < t on float64: every comparison with NaN is false.        *)
(***************************************************************************)
NotPositive(x) == x.k = "num" /\ x.v <= 0
LessThan(x, t) == x.k = "num" /\ x.v < t

(***************************************************************************)
(* weight / (height * height), both positive or NaN.                       *)
(***************************************************************************)
Quotient(w, h) ==
    CASE w.k = "nan" \/ h.k = "nan" -> NaN
      [] w.k = "inf" /\ h.k = "inf" -> NaN
      [] w.k = "inf" -> Inf
      [] h.k = "inf" -> Num(0)
      [] OTHER -> Num((400 * w.v) \div (h.v * h.v))

getBMICategory(bmi) ==
    IF LessThan(bmi, Underweight) THEN "Underweight"
    ELSE IF LessThan(bmi, NormalWeight) THEN "Normal weight"
    ELSE IF LessThan(bmi, Overweight) THEN "Overweight"
    ELSE "Obese"

(***************************************************************************)
(* The requests: POST /calculate with a JSON body (a JSON number is never  *)
(* NaN or Inf; Unparsable is a body that does not decode), GET             *)
(* /bmi/{weight}/{height} with two path segments (strconv.ParseFloat       *)
(* takes "NaN" and "Inf"), and GET /history.                               *)
(***************************************************************************)
BMIRequests ==
    {[op |-> "calculate", weight |-> w, height |-> Num(4)] :
        w \in {Unparsable, Num(0), Num(74)}}
      \cup {[op |-> "quick", weight |-> w, height |-> h] :
               w \in {Unparsable, NaN, Num(100)}, h \in {Num(4)}}
      \cup {[op |-> "quick", weight |-> Num(120), height |-> h] :
               h \in {Unparsable, Num(-2), Num(4)}}
      \cup {[op |-> "history", weight |-> Unparsable, height |-> Unparsable]}

StatusBadRequest == 400
side == <<demo, lookup, probe, gw>>

(***************************************************************************)
(* The router hands a request to its handler, in a goroutine of its own.   *)
(***************************************************************************)
BMIAccept(g) ==
    /\ bmiReqs[g].pc = "idle"
    /\ \E rq \in BMIRequests :
         bmiReqs' = [bmiReqs EXCEPT ![g] =
                       [BMIIdle EXCEPT !.pc = rq.op, !.op = rq.op,
                                       !.weight = rq.weight, !.height = rq.height]]
    /\ UNCHANGED <<side, calculations, completed>>

(***************************************************************************)
(* The handlers up to the append: the 400s, or bmi and category.           *)
(***************************************************************************)
Rejected(r) == [r EXCEPT !.status = StatusBadRequest, !.pc = "done"]

Calculated(r) ==
    LET bmi == Quotient(r.weight, r.height) IN
    [r EXCEPT !.entry = [weight |-> r.weight, height |-> r.height, bmi |-> bmi,
                         category |-> getBMICategory(bmi)],
              !.pc = "load"]

calculateHandler(g) ==
    LET r == bmiReqs[g] IN
    /\ r.pc = "calculate"
    /\ bmiReqs' = [bmiReqs EXCEPT ![g] =
                     IF r.weight = Unparsable \/ r.height = Unparsable
                       THEN Rejected(r)
                     ELSE IF NotPositive(r.weight) \/ NotPositive(r.height)
                       THEN Rejected(r)
                     ELSE Calculated(r)]
    /\ UNCHANGED <<side, calculations, completed>>

quickCalculateHandler(g) ==
    LET r == bmiReqs[g] IN
    /\ r.pc = "quick"
    /\ bmiReqs' = [bmiReqs EXCEPT ![g] =
                     IF r.weight = Unparsable THEN Rejected(r)
                     ELSE IF r.height = Unparsable THEN Rejected(r)
                     ELSE IF NotPositive(r.weight) \/ NotPositive(r.height)
                       THEN Rejected(r)
                     ELSE Calculated(r)]
    /\ UNCHANGED <<side, calculations, completed>>

(***************************************************************************)
(* calculations = append(calculations, calculation), on a package variable *)
(* no lock protects: the slice is read, and the longer slice is stored, in *)
(* two steps that another goroutine's append can come between.             *)
(***************************************************************************)
AppendRead(g) ==
    /\ bmiReqs[g].pc = "load"
    /\ bmiReqs' = [bmiReqs EXCEPT ![g].local = calculations, ![g].pc = "store"]
    /\ UNCHANGED <<side, calculations, completed>>

AppendWrite(g) ==
    /\ bmiReqs[g].pc = "store"
    /\ calculations' = Append(bmiReqs[g].local, bmiReqs[g].entry)
    /\ completed' = Append(completed, bmiReqs[g].entry)
    /\ bmiReqs' = [bmiReqs EXCEPT ![g].pc = "encode"]
    /\ UNCHANGED side

(***************************************************************************)
(* json.NewEncoder(w).Encode(v): nothing is written when v holds a NaN or  *)
(* an Inf, which JSON cannot express; the status stays 200.                *)
(***************************************************************************)
Encodable(e) == e.bmi.k = "num" /\ e.weight.k = "num" /\ e.height.k = "num"
NoBody == [written |-> FALSE]

EncodeCalculation(g) ==
    /\ bmiReqs[g].pc = "encode"
    /\ bmiReqs' = [bmiReqs EXCEPT ![g].status = StatusOK,
                                  ![g].body = IF Encodable(bmiReqs[g].entry)
                                                THEN [written |-> TRUE,
                                                      category |-> bmiReqs[g].entry.category]
                                                ELSE NoBody,
                                  ![g].pc = "done"]
    /\ UNCHANGED <<side, calculations, completed>>

historyHandler(g) ==
    /\ bmiReqs[g].pc = "history"
    /\ bmiReqs' = [bmiReqs EXCEPT ![g].status = StatusOK,
                                  ![g].local = calculations,
                                  ![g].body =
                                     IF \A i \in 1 .. Len(calculations) :
                                          Encodable(calculations[i])
                                       THEN [written |-> TRUE, count |-> Len(calculations)]
                                       ELSE NoBody,
                                  ![g].pc = "done"]
    /\ UNCHANGED <<side, calculations, completed>>

BMIStep(g) ==
    \/ BMIAccept(g)
    \/ calculateHandler(g)
    \/ quickCalculateHandler(g)
    \/ AppendRead(g)
    \/ AppendWrite(g)
    \/ EncodeCalculation(g)
    \/ historyHandler(g)

InitBMI ==
    /\ IdleServer
    /\ environ = [VERSION |-> "", BEHAVIOR |-> "", PORT |-> "", host |-> HostOK]
    /\ InitOthers

NextBMI == \E g \in Slots : BMIStep(g)

SpecBMI == InitBMI /\ [][NextBMI]_vars

(***************************************************************************)
(* The gateway (the gateway main in src/rollouts/README.md) in front of    *)
(* the BMI service and the health service.  A path is the sequence of its  *)
(* segments, each with its leading slash; <<>> is the path "/".            *)
(***************************************************************************)
MaxSegments == 4

Segments ==
    {"/api", "/bmi", "/health", "/calculate", "/history", "/services", "/70", "/1.75"}
RequestPaths == UNION {[1 .. n -> Segments] : n \in 0 .. MaxSegments}
StatusNotFound == 404
StatusMethodNotAllowed == 405

HasPrefix(path, prefix) ==
    Len(path) >= Len(prefix) /\ SubSeq(path, 1, Len(prefix)) = prefix

StripPrefix(path, prefix) == SubSeq(path, Len(prefix) + 1, Len(path))

Reached(service, op) == [target |-> service, op |-> op, status |-> StatusOK, path |-> <<>>]
Forward(service, path) == [target |-> service, op |-> "", status |-> 0, path |-> path]
Refused(service, status) == [target |-> service, op |-> "", status |-> status, path |-> <<>>]
Methods(service, op, allowed, method) ==
    IF method = allowed THEN Reached(service, op)
    ELSE Refused(service, StatusMethodNotAllowed)

(***************************************************************************)
(* The gateway's router: its own /health, then the two path prefixes, each *)
(* with the prefix its handler strips before the proxy forwards.           *)
(***************************************************************************)
GatewayRouter(method, path) ==
    IF path = <<"/health">> THEN Methods("gateway", "health", "GET", method)
    ELSE IF HasPrefix(path, <<"/api", "/health">>)
      THEN Forward("health-service", StripPrefix(path, <<"/api">>))
    ELSE IF HasPrefix(path, <<"/api", "/bmi">>)
      THEN Forward("bmi-service", StripPrefix(path, <<"/api", "/bmi">>))
    ELSE Refused("gateway", StatusNotFound)

BMIRouter(method, path) ==
    IF path = <<"/health">> THEN Methods("bmi-service", "health", "GET", method)
    ELSE IF path = <<"/calculate">> THEN Methods("bmi-service", "calculate", "POST", method)
    ELSE IF path = <<"/history">> THEN Methods("bmi-service", "history", "GET", method)
    ELSE IF Len(path) = 3 /\ path[1] = "/bmi"
      THEN Methods("bmi-service", "quickCalculate", "GET", method)
    ELSE Refused("bmi-service", StatusNotFound)

HealthRouter(method, path) ==
    IF path = <<"/health">> THEN Methods("health-service", "health", "GET", method)
    ELSE IF path = <<"/health", "/detailed">>
      THEN Methods("health-service", "detailedHealth", "GET", method)
    ELSE IF path = <<"/health", "/services">>
      THEN Methods("health-service", "servicesHealth", "GET", method)
    ELSE IF path = <<"/ready">> THEN Methods("health-service", "readiness", "GET", method)
    ELSE IF path = <<"/live">> THEN Methods("health-service", "liveness", "GET", method)
    ELSE Refused("health-service", StatusNotFound)

InitGateway ==
    /\ IdleServer
    /\ environ = [VERSION |-> "", BEHAVIOR |-> "", PORT |-> "", host |-> HostOK]
    /\ lookup = LookupIdle
    /\ probe = ProbeIdle
    /\ InitBMIService
    /\ \E m \in {"GET", "POST"}, p \in RequestPaths :
         gw = [GatewayIdle EXCEPT !.on = TRUE, !.method = m, !.path = p, !.stage = "gateway"]

GatewayServe ==
    /\ gw.on /\ gw.stage = "gateway"
    /\ LET r == GatewayRouter(gw.method, gw.path) IN
         gw' = [gw EXCEPT !.target = r.target, !.forwarded = r.path, !.op = r.op,
                          !.status = r.status,
                          !.stage = IF r.status = 0 THEN "proxy" ELSE "done"]
    /\ UNCHANGED <<demo, lookup, probe, bmisvc>>

ProxyServe ==
    /\ gw.on /\ gw.stage = "proxy"
    /\ LET r == IF gw.target = "bmi-service"
                   THEN BMIRouter(gw.method, gw.forwarded)
                   ELSE HealthRouter(gw.method, gw.forwarded) IN
         gw' = [gw EXCEPT !.op = r.op, !.status = r.status, !.stage = "done"]
    /\ UNCHANGED <<demo, lookup, probe, bmisvc>>

NextGateway == GatewayServe \/ ProxyServe

SpecGateway == InitGateway /\ [][NextGateway]_vars

(***************************************************************************)
(* Properties of the server (Spec).                                        *)
(***************************************************************************)
Active == {s \in Slots : reqs[s].pc # "idle"}
Completed == {s \in Slots : reqs[s].pc = "done" /\ reqs[s].endpoint \in Endpoints}
Quiescent == \A s \in Slots : reqs[s].pc \in {"idle", "done"}
BeforeCount == {"apply", "sleep", "health", "count"}
NotYetCounted(e) ==
    Cardinality({s \in Slots : reqs[s].endpoint = e /\ reqs[s].pc \in BeforeCount})

\* C1: for every route, the sum of http_requests_total over all methods and
\* status labels equals the number of requests made to the route that have
\* passed their counter increment, and at quiescence the number of requests
\* made to the route.
C1_CounterSumsToRequests ==
    \A e \in Endpoints :
        /\ CounterTotal(e) = made[e] - NotYetCounted(e)
        /\ Quiescent => CounterTotal(e) = made[e]

C1_Witness ==
    /\ Quiescent
    /\ made["/"] = 2
    /\ <<"GET", "/", "200">> \in DOMAIN requestCounter
    /\ requestCounter[<<"GET", "/", "200">>] = 2

\* C2: every completed request has incremented exactly one counter sample and
\* recorded exactly one duration observation, and the status label of that
\* sample is the status written to the client (200, 500 or 503).
C2_OneSampleWithActualStatus ==
    \A s \in Completed :
        /\ reqs[s].incs = 1
        /\ reqs[s].obs = 1
        /\ \/ reqs[s].written = 200 /\ reqs[s].label = "200"
           \/ reqs[s].written = 500 /\ reqs[s].label = "500"
           \/ reqs[s].written = 503 /\ reqs[s].label = "503"
        /\ <<reqs[s].method, reqs[s].endpoint, reqs[s].label>> \in DOMAIN requestCounter
        /\ <<reqs[s].method, reqs[s].endpoint>> \in DOMAIN requestDuration

C2_Witness ==
    \E s, t \in Completed :
        /\ reqs[s].written = 500 /\ reqs[s].label = "500"
        /\ reqs[t].written = 503 /\ reqs[t].label = "503"

\* C3 as stated: no metrics update (counter increment or duration observation)
\* of a request happens before its response has been written.
C3_MetricsAfterResponse ==
    \A s \in Slots : (reqs[s].incs > 0 \/ reqs[s].obs > 0) => reqs[s].written # 0

\* C3 amended: every request passes through its stages in the order decision,
\* counter increment, response written, duration observation: the counter is
\* incremented after the decision and before the response is written, and the
\* duration is observed after the response is written.
C3_DecisionCountResponseObserve ==
    \A s \in {t \in Slots : reqs[t].endpoint \in Endpoints} :
        /\ reqs[s].incs > 0 => reqs[s].status # 0
        /\ reqs[s].written # 0 => reqs[s].incs = 1
        /\ reqs[s].obs > 0 => reqs[s].written # 0
        /\ reqs[s].pc = "respond" => reqs[s].incs = 1 /\ reqs[s].written = 0 /\ reqs[s].obs = 0
        /\ reqs[s].pc = "done" => reqs[s].obs = 1

C3_Witness ==
    \E s \in Slots, t \in Completed :
        /\ reqs[s].pc = "respond" /\ reqs[s].incs = 1 /\ reqs[s].written = 0
        /\ reqs[t].endpoint = "/health"

\* C4: with BEHAVIOR=normal every request to root, data and process is
\* decided and answered 200 and has no injected pause.
C4_NormalIs200NoDelay ==
    behavior = "normal" =>
        \A s \in Active :
            reqs[s].endpoint \in ContentEndpoints =>
                /\ reqs[s].status \in {0, 200}
                /\ reqs[s].written \in {0, 200}
                /\ reqs[s].delay = 0
                /\ reqs[s].paused = 0
                /\ reqs[s].pc \notin {"sleep", "sleep2"}
                /\ reqs[s].pc = "done" => reqs[s].written = 200

C4_Witness ==
    /\ behavior = "normal"
    /\ \E s, t \in Completed :
         /\ reqs[s].endpoint = "/api/process" /\ reqs[s].written = 200 /\ reqs[s].paused = 0
         /\ reqs[t].endpoint = "/" /\ reqs[t].written = 200 /\ reqs[t].paused = 0

\* C5 as stated: with BEHAVIOR=slow every response of root, data and process
\* has status 200 and a total injected pause d with 200ms <= d < 1000ms.
C5_SlowPauseBelowOneSecond ==
    behavior = "slow" =>
        \A s \in Completed :
            reqs[s].endpoint \in ContentEndpoints =>
                /\ reqs[s].written = 200
                /\ 200 <= reqs[s].paused /\ reqs[s].paused < 1000

\* C5 amended: with BEHAVIOR=slow every response of root, data and process has
\* status 200; the total injected pause d of a root or data response satisfies
\* 200ms <= d < 1000ms, and that of a process response, which pauses a second
\* time for 100ms to 499ms, satisfies 300ms <= d < 1500ms.
C5_SlowPausePerRoute ==
    behavior = "slow" =>
        \A s \in Completed :
            /\ reqs[s].endpoint \in {"/", "/api/data"} =>
                 /\ reqs[s].written = 200
                 /\ 200 <= reqs[s].paused /\ reqs[s].paused < 1000
            /\ reqs[s].endpoint = "/api/process" =>
                 /\ reqs[s].written = 200
                 /\ 300 <= reqs[s].paused /\ reqs[s].paused < 1500

C5_Witness ==
    /\ behavior = "slow"
    /\ \E s, t \in Completed :
         /\ reqs[s].endpoint = "/api/process" /\ reqs[s].paused >= 1000
         /\ reqs[t].endpoint = "/api/data" /\ reqs[t].paused = 999


(***************************************************************************)
(* Properties of the behaviour rules over the whole draw space             *)
(* (SpecEngine).  A draw f stands for f / DrawScale, so f < 0.5 is         *)
(* 2 * f < DrawScale, f < 0.3 is 10 * f < 3 * DrawScale and f < 0.4 is     *)
(* 10 * f < 4 * DrawScale.                                                 *)
(***************************************************************************)
Decided == engine.on /\ engine.decided
DecisionAt(a, b) == applyBehavior(behavior, [engine.rnd EXCEPT !.f1 = a, !.f2 = b])
DrawPairs == Draws \X Draws

\* C6: with BEHAVIOR=error-prone the decision is 500 exactly when the single
\* draw is below 0.5 and 200 otherwise, no pause is injected, the outcome does
\* not depend on any other draw, and both outcomes occur in the draw space.
C6_ErrorProneHalf ==
    (behavior = "error-prone" /\ Decided) =>
        /\ engine.decision.status = 500 <=> 2 * engine.rnd.f1 < DrawScale
        /\ engine.decision.status = 200 <=> 2 * engine.rnd.f1 >= DrawScale
        /\ engine.decision.delay = 0
        /\ \A b \in Draws : DecisionAt(engine.rnd.f1, b) = engine.decision
        /\ \E a \in Draws : DecisionAt(a, engine.rnd.f2).status = 500
        /\ \E a \in Draws : DecisionAt(a, engine.rnd.f2).status = 200

C6_Witness ==
    /\ behavior = "error-prone" /\ Decided
    /\ engine.decision.status = 500
    /\ 2 * engine.rnd.f1 = DrawScale - 2

\* C7: with BEHAVIOR=chaotic a pause in [500ms,1500ms) is injected iff the
\* first draw is below 0.3, the status is 500 iff the second draw is below 0.4
\* and 200 otherwise, the status does not depend on the first draw nor the
\* pause on the second, and all four combinations of (delayed, not delayed)
\* with (500, 200) occur in the draw space.
C7_ChaoticIndependentDraws ==
    (behavior = "chaotic" /\ Decided) =>
        /\ engine.decision.delay > 0 <=> 10 * engine.rnd.f1 < 3 * DrawScale
        /\ engine.decision.delay > 0 =>
             500 <= engine.decision.delay /\ engine.decision.delay < 1500
        /\ engine.decision.status = 500 <=> 10 * engine.rnd.f2 < 4 * DrawScale
        /\ engine.decision.status = 200 <=> 10 * engine.rnd.f2 >= 4 * DrawScale
        /\ \A a \in Draws : DecisionAt(a, engine.rnd.f2).status = engine.decision.status
        /\ \A b \in Draws : DecisionAt(engine.rnd.f1, b).delay = engine.decision.delay
        /\ \A delayed \in BOOLEAN, failed \in BOOLEAN :
             \E p \in DrawPairs :
                /\ (DecisionAt(p[1], p[2]).delay > 0) = delayed
                /\ (DecisionAt(p[1], p[2]).status = 500) = failed

C7_Witness ==
    /\ behavior = "chaotic" /\ Decided
    /\ engine.decision.delay = 1499
    /\ engine.decision.status = 500

\* C8: counted over the draw space, the outcomes with status 500 are 0.5 of
\* all in error-prone mode; in chaotic mode those with status 500 are 0.4,
\* those delayed 0.3 and those both delayed and 500 are 0.12 of all.
C8_OutcomeFractions ==
    /\ (behavior = "error-prone" /\ engine.on) =>
         2 * Cardinality({a \in Draws : DecisionAt(a, engine.rnd.f2).status = 500})
            = Cardinality(Draws)
    /\ (behavior = "chaotic" /\ engine.on) =>
         /\ 10 * Cardinality({p \in DrawPairs : DecisionAt(p[1], p[2]).status = 500})
              = 4 * Cardinality(DrawPairs)
         /\ 10 * Cardinality({p \in DrawPairs : DecisionAt(p[1], p[2]).delay > 0})
              = 3 * Cardinality(DrawPairs)
         /\ 100 * Cardinality({p \in DrawPairs : /\ DecisionAt(p[1], p[2]).delay > 0
                                                 /\ DecisionAt(p[1], p[2]).status = 500})
              = 12 * Cardinality(DrawPairs)

C8_Witness ==
    /\ behavior = "chaotic" /\ Decided
    /\ engine.decision.delay = 0
    /\ engine.decision.status = 500


(***************************************************************************)
(* Properties of the health route and of an unrecognized mode (Spec).      *)
(***************************************************************************)
HealthRequests == {s \in Active : reqs[s].endpoint = "/health"}

RootEnvelopes == {s \in Completed : reqs[s].endpoint = "/" /\ reqs[s].written = 200}
MessageSet(mode) == {messages(mode)[i] : i \in 1 .. Len(messages(mode))}

\* C11 as stated: the mode held by the service, the behavior field of every
\* root envelope and the behavior label of the gauge are always one of normal,
\* slow, error-prone, chaotic, and an unrecognized BEHAVIOR value is held as
\* normal.
C11_ModeIsEnumValue ==
    /\ behavior \in Modes
    /\ environ.BEHAVIOR \notin Modes => behavior = "normal"
    /\ \A k \in DOMAIN versionGauge : k[2] \in Modes
    /\ \A s \in RootEnvelopes : reqs[s].envelope \in Modes

\* C11 amended: the mode held by the service is the BEHAVIOR value itself when
\* that is set and not empty, and normal otherwise; the behavior field of every
\* root envelope and the behavior label of the gauge are that held value; it is
\* one of the four enum values exactly when the configured value is one of them
\* or empty, so an unrecognized value is kept as it is.
C11_ModeIsConfiguredValue ==
    /\ environ.BEHAVIOR = "" => behavior = "normal"
    /\ environ.BEHAVIOR # "" => behavior = environ.BEHAVIOR
    /\ behavior \in Modes <=> environ.BEHAVIOR \in Modes \cup {""}
    /\ \A k \in DOMAIN versionGauge : k[2] = behavior
    /\ \A s \in RootEnvelopes : reqs[s].envelope = behavior

C11_Witness ==
    /\ environ.BEHAVIOR = "bogus"
    /\ \E k \in DOMAIN versionGauge : k[2] = "bogus"
    /\ \E s \in RootEnvelopes : reqs[s].envelope = "bogus"

\* C12 as stated: the message of every root envelope is non-empty and a member
\* of the message set of the mode in effect.
C12_MessageOfModeSet ==
    \A s \in RootEnvelopes :
        /\ reqs[s].message # ""
        /\ reqs[s].message \in MessageSet(behavior)

\* C12 amended: when the mode in effect is one of the four modes, the message
\* of every root envelope is non-empty and a member of that mode's message
\* set, the set has at least 3 members and every member can be chosen; under
\* any other mode the message is the fixed string "Unknown state".
C12_MessageOfModeSetOrUnknown ==
    /\ behavior \in Modes =>
         /\ Len(messages(behavior)) >= 3
         /\ Cardinality(MessageSet(behavior)) >= 3
         /\ "" \notin MessageSet(behavior)
         /\ {getMessage(behavior, k) : k \in MessageDraws(behavior)} = MessageSet(behavior)
         /\ \A s \in RootEnvelopes : reqs[s].message \in MessageSet(behavior)
    /\ behavior \notin Modes =>
         /\ MessageSet(behavior) = {}
         /\ \A s \in RootEnvelopes : reqs[s].message = "Unknown state"

C12_Witness ==
    /\ behavior = "chaotic"
    /\ \E s, t \in RootEnvelopes :
         /\ reqs[s].message = "Erratic performance"
         /\ reqs[t].message = "Unpredictable behavior"

\* C13: once main has set it, app_version_info has exactly one sample, keyed
\* by the startup version, behavior and hostname, with value 1, whatever
\* requests have been served since; before that it has none.
C13_GaugeOneSample ==
    /\ server = "main" => versionGauge = <<>>
    /\ server # "main" =>
         /\ DOMAIN versionGauge = {<<version, behavior, hostname>>}
         /\ versionGauge[<<version, behavior, hostname>>] = 1

C13_Witness ==
    /\ server = "serving"
    /\ Quiescent /\ Accepted = MaxRequests
    /\ \E s \in Slots : reqs[s].endpoint = "/metrics" /\ reqs[s].pc = "done"
    /\ DOMAIN versionGauge = {<<"2.0", "normal", "unknown">>}

\* C14: no step of main or of any handler changes version, behavior, port or
\* hostname: they keep the values the package variables were given.
C14_ConfigurationUnchanged ==
    [][<<version, behavior, port, hostname>>' = <<version, behavior, port, hostname>>]_vars

C14_Witness ==
    /\ server = "serving"
    /\ Quiescent /\ Accepted = MaxRequests
    /\ behavior = "bogus" /\ port = "8080" /\ version = "1.0" /\ hostname = "pod-1"
    /\ \A s \in Slots : reqs[s].endpoint \in ContentEndpoints


(***************************************************************************)
(* Properties of the pauses and of the measured durations (Spec).          *)
(***************************************************************************)
ContentRequests == {s \in Slots : reqs[s].endpoint \in ContentEndpoints}
ProcessReports ==
    {s \in Slots : /\ reqs[s].endpoint = "/api/process"
                   /\ reqs[s].written = StatusOK}

\* C15: on root, data and process, nothing of the response is written while a
\* pause is pending or running; the duration is observed after the response
\* is written, and the observed duration is at least the total pause of the
\* request.
C15_PauseBeforeResponseAndObserved ==
    \A s \in ContentRequests :
        /\ reqs[s].written # 0 =>
             /\ reqs[s].delay = 0
             /\ reqs[s].pc \in {"observe", "done"}
        /\ reqs[s].pc \in {"apply", "sleep", "count", "sleep2"} => reqs[s].written = 0
        /\ reqs[s].obs = 1 =>
             /\ reqs[s].pc = "done"
             /\ reqs[s].written # 0
             /\ reqs[s].observed >= reqs[s].paused * MicrosPerMilli
        /\ behavior = "slow" /\ reqs[s].written # 0 => reqs[s].paused >= SlowDelayBase

C15_Witness ==
    /\ behavior = "chaotic"
    /\ \E s \in ContentRequests :
         /\ reqs[s].pc = "done"
         /\ reqs[s].written = StatusInternalServerError
         /\ reqs[s].paused = ChaoticDelayBase + ChaoticDelaySpan - 1
         /\ reqs[s].observed = reqs[s].paused * MicrosPerMilli

\* C16: the duration reported by a 200 response of the process route is the
\* whole milliseconds elapsed since the request's start: at least the sum of
\* the request's pauses and at most the duration observed for it afterwards.
C16_ReportedDurationBounds ==
    \A s \in ProcessReports :
        /\ reqs[s].reported = Milliseconds(reqs[s].elapsed) \/ reqs[s].pc = "done"
        /\ reqs[s].reported >= reqs[s].paused
        /\ reqs[s].pc = "done" =>
             reqs[s].reported * MicrosPerMilli <= reqs[s].observed

C16_Witness ==
    /\ behavior = "slow"
    /\ \E s \in ProcessReports :
         /\ reqs[s].pc = "done"
         /\ reqs[s].paused = SlowDelayBase + ProcessDelayBase + ProcessDelaySpan - 1
         /\ reqs[s].reported = reqs[s].paused
         /\ reqs[s].observed = reqs[s].paused * MicrosPerMilli + Jitter


(***************************************************************************)
(* Properties of the response format and of the shared metrics (Spec).     *)
(***************************************************************************)
Responses == {s \in Slots : reqs[s].written # 0}

\* C17: every response of the root, health, data and process routes, with
\* status 200, 500 or 503, has Content-Type application/json and a JSON body,
\* and only the metrics route answers in another format.
C17_AllResponsesJSON ==
    \A s \in Responses :
        IF reqs[s].endpoint = "/metrics"
          THEN reqs[s].ctype # JSON
          ELSE reqs[s].ctype = JSON /\ reqs[s].body = "json"

InstrumentedMade == SumOver(made, Endpoints)
CounterSum == SumOver(requestCounter, DOMAIN requestCounter)
HistSum == SumOver(requestDuration, DOMAIN requestDuration)
InFlight(pcs) ==
    Cardinality({s \in Slots : reqs[s].endpoint \in Endpoints /\ reqs[s].pc \in pcs})

\* C18: under every interleaving of the handlers, the counter total is the
\* number of requests that have passed their increment and the histogram
\* count the number that have passed their observation; once all N requests
\* made have completed, both are exactly N.
C18_NoLostUpdate ==
    /\ CounterSum = InstrumentedMade - InFlight(BeforeCount)
    /\ HistSum = InstrumentedMade
                   - InFlight(BeforeCount \cup {"respond", "sleep2", "observe"})
    /\ Quiescent => CounterSum = InstrumentedMade /\ HistSum = InstrumentedMade

C18_Witness ==
    /\ Quiescent
    /\ InstrumentedMade = MaxRequests
    /\ \A s \in Slots : reqs[s].pc = "done" /\ reqs[s].endpoint = "/api/process"
    /\ requestDuration = (<<"GET", "/api/process">> :> MaxRequests)
    /\ requestCounter = (<<"GET", "/api/process", "500">> :> MaxRequests)


(***************************************************************************)
(* Properties of the concurrent handling of requests (Spec).               *)
(***************************************************************************)
InPause(s) == reqs[s].pc \in {"sleep", "sleep2"}
InFailure(s) ==
    /\ reqs[s].pc \in {"sleep", "count", "respond", "observe"}
    /\ reqs[s].status \in {StatusInternalServerError, StatusServiceUnavailable}

\* C19: while a request is inside a pause or carries an injected failure,
\* every other request in flight, a health request and a metrics scrape
\* included, has a step it can take, and a free goroutine can accept a new
\* request on any route: nothing held by the first request is needed by them.
C19_PauseBlocksOnlyItsRequest ==
    \A s \in Slots :
        InPause(s) \/ InFailure(s) =>
            \A t \in Slots \ {s} :
                IF reqs[t].pc \in {"idle", "done"}
                  THEN Accepted < MaxRequests => ENABLED Accept(t)
                  ELSE ENABLED Step(t)

C19_Witness ==
    \E s, t \in Slots :
        /\ reqs[s].pc = "sleep" /\ reqs[s].status = StatusInternalServerError
        /\ reqs[t].pc = "scrape"
        /\ ENABLED Scrape(t)
        /\ requestCounter = <<>>


(***************************************************************************)
(* Termination of the handlers (FairSpec).                                 *)
(***************************************************************************)
Entered(s) == reqs[s].pc \notin {"idle", "done"}
Finished(s) ==
    /\ reqs[s].pc = "done"
    /\ reqs[s].written # 0
    /\ reqs[s].endpoint \in Endpoints => reqs[s].incs = 1 /\ reqs[s].obs = 1

\* C20: the only step that ends a pause is the return of its time.Sleep after
\* the whole computed delay, with the rest of the request untouched until
\* then, and under fair scheduling every request that has entered a handler
\* reaches the end of the handler with its response written, its counter
\* incremented once and its duration observed once.
C20_DelayRunsAndRequestCompletes ==
    /\ [][\A s \in Slots :
            InPause(s) /\ reqs'[s] # reqs[s] =>
                /\ reqs[s].delay > 0
                /\ reqs'[s].paused = reqs[s].paused + reqs[s].delay
                /\ reqs'[s].pc \notin {"sleep", "sleep2", "idle"}]_vars
    /\ \A s \in Slots : Entered(s) ~> Finished(s)

C20_Witness ==
    /\ behavior = "slow"
    /\ \A s \in Slots :
         /\ Finished(s)
         /\ reqs[s].endpoint = "/api/process"
         /\ reqs[s].paused = (SlowDelayBase + SlowDelaySpan - 1) + ProcessDelayBase


(***************************************************************************)
(* Properties of the configuration lookup (SpecConfig).                    *)
(***************************************************************************)
\* C21: a lookup returns the variable's value when the variable is set to a
\* non-empty string, and the default of the variable when it is not set or
\* set to the empty string; the defaults are "1.0" for VERSION, "normal" for
\* BEHAVIOR and "8080" for PORT.
C21_ValueOrDefault ==
    lookup.done =>
        LET k == lookup.key
            set == k \in DOMAIN lookup.env IN
        /\ set /\ lookup.env[k] # "" => lookup.value = lookup.env[k]
        /\ ~set \/ lookup.env[k] = "" =>
             lookup.value = CASE k = "VERSION" -> "1.0"
                              [] k = "BEHAVIOR" -> "normal"
                              [] k = "PORT" -> "8080"
        /\ lookup.value # ""

C21_Witness ==
    /\ lookup.done
    /\ lookup.key = "PORT"
    /\ lookup.env = [VERSION |-> "2.0", PORT |-> ""]
    /\ lookup.value = "8080"


(***************************************************************************)
(* Properties of startup, of the decision and of the routing (Spec).       *)
(***************************************************************************)
GaugeIsSet == DOMAIN versionGauge = {<<version, behavior, hostname>>}
NothingServed ==
    /\ Accepted = 0
    /\ \A s \in Slots : reqs[s] = Idle
    /\ requestCounter = <<>> /\ requestDuration = <<>>

\* C22: when ListenAndServe fails the process has exited with code 1 and has
\* served no request, and stays so; once the server serves it keeps serving
\* whatever requests arrive; requests are accepted only by a serving server,
\* and the gauge is set before the server listens.
C22_ExitOnlyOnListenFailure ==
    /\ [](server = "exit1" => NothingServed)
    /\ [](~NothingServed => server = "serving")
    /\ [](server # "main" => GaugeIsSet)
    /\ [][server = "serving" => server' = "serving"]_vars
    /\ [][server = "exit1" => server' = "exit1"]_vars

C22_Witness ==
    /\ server = "exit1"
    /\ GaugeIsSet
    /\ NothingServed

\* C23: a request to root, data or process has made no behaviour decision
\* before applyBehavior and exactly one ever after; the status of that
\* decision is the status written to the client and the status label of the
\* counter sample the request incremented.  Health requests, scrapes and
\* redirects make none.
C23_OneDecisionPerRequest ==
    \A s \in Slots :
        IF reqs[s].endpoint \in ContentEndpoints
          THEN /\ reqs[s].pc = "apply" => reqs[s].decisions = 0
               /\ reqs[s].pc # "apply" => reqs[s].decisions = 1
               /\ reqs[s].decisions = 1 =>
                    reqs[s].status \in {StatusOK, StatusInternalServerError}
               /\ reqs[s].incs = 1 =>
                    /\ reqs[s].label = Sprintf(reqs[s].status)
                    /\ <<reqs[s].method, reqs[s].endpoint, Sprintf(reqs[s].status)>>
                         \in DOMAIN requestCounter
               /\ reqs[s].written # 0 => reqs[s].written = reqs[s].status
          ELSE reqs[s].decisions = 0

C23_Witness ==
    \E s \in Slots :
        /\ reqs[s].pc = "done"
        /\ reqs[s].endpoint = "/api/data"
        /\ reqs[s].decisions = 1
        /\ reqs[s].status = StatusInternalServerError
        /\ reqs[s].written = StatusInternalServerError
        /\ reqs[s].label = "500"
        /\ requestCounter[<<"GET", "/api/data", "500">>] = 1

EnginePauses(mode) ==
    CASE mode = "slow" -> SlowDelayBase .. (SlowDelayBase + SlowDelaySpan - 1)
      [] mode = "chaotic" ->
           {0} \cup (ChaoticDelayBase .. (ChaoticDelayBase + ChaoticDelaySpan - 1))
      [] OTHER -> {0}
ProcessPauses == ProcessDelayBase .. (ProcessDelayBase + ProcessDelaySpan - 1)

\* C28: under slow, a process request decided 200 pauses a second time, for
\* 100 to 499 ms, after the engine's pause of 200 to 999 ms, 300 to 1499 ms
\* together; in every other mode and on every other route the only pause of
\* a request is the engine's.
C28_SecondPauseOnlySlowProcess ==
    \A s \in Slots :
        /\ reqs[s].pc = "sleep2" =>
             /\ behavior = "slow"
             /\ reqs[s].endpoint = "/api/process"
             /\ reqs[s].status = StatusOK
             /\ reqs[s].paused \in EnginePauses("slow")
             /\ reqs[s].delay \in ProcessPauses
        /\ reqs[s].written # 0 =>
             IF behavior = "slow" /\ reqs[s].endpoint = "/api/process"
               THEN /\ reqs[s].written = StatusOK
                    /\ 300 <= reqs[s].paused /\ reqs[s].paused < 1500
               ELSE IF reqs[s].endpoint \in ContentEndpoints
                      THEN reqs[s].paused \in EnginePauses(behavior)
                      ELSE reqs[s].paused = 0

C28_Witness ==
    /\ behavior = "slow"
    /\ \E s, t \in Slots :
         /\ reqs[s].pc = "done" /\ reqs[s].endpoint = "/api/process"
         /\ reqs[s].paused = 1498
         /\ reqs[t].pc = "done" /\ reqs[t].endpoint = "/api/data"
         /\ reqs[t].paused = 999

Special == {"/health", "/api/data", "/api/process", "/metrics"}
Fallbacks == {s \in Slots : reqs[s].pc # "idle" /\ reqs[s].path \notin Special}
ServedByRoot(s) ==
    /\ reqs[s].endpoint = "/"
    /\ reqs[s].pc # "apply" =>
         /\ reqs[s].decisions = 1
         /\ \E rnd \in RandSource : applyBehavior(behavior, rnd).status = reqs[s].status
    /\ reqs[s].incs = 1 =>
         <<reqs[s].method, "/", Sprintf(reqs[s].status)>> \in DOMAIN requestCounter
    /\ reqs[s].pc = "done" => reqs[s].incs = 1 /\ reqs[s].obs = 1
LabelsAreRoutes ==
    /\ \A k \in DOMAIN requestCounter : k[2] \in Endpoints
    /\ \A k \in DOMAIN requestDuration : k[2] \in Endpoints

\* C30 as stated: every request whose path is none of /health, /api/data,
\* /api/process, /metrics, with whatever method, is served by the root
\* handler: it gets the root decision and is counted under endpoint "/" with
\* its own method; the endpoint labels are among the four routes.
C30_EveryOtherPathIsRoot ==
    /\ \A s \in Fallbacks : ServedByRoot(s)
    /\ LabelsAreRoutes

\* C30 amended: every request whose path is none of the four and is a clean
\* path, with whatever method, is served by the root handler and counted
\* under endpoint "/" with its own method; a request whose path is not clean
\* (repeated slash, dot segment) is answered by the mux with a 301 to the
\* clean path, no handler runs and no metric changes; the endpoint labels are
\* among the four routes.
C30_CleanOtherPathIsRoot ==
    /\ \A s \in Fallbacks :
         IF cleanPath(reqs[s].path) = reqs[s].path
           THEN ServedByRoot(s)
           ELSE /\ reqs[s].endpoint = "redirect"
                /\ reqs[s].decisions = 0 /\ reqs[s].incs = 0 /\ reqs[s].obs = 0
                /\ reqs[s].pc = "done" => reqs[s].written = 301
    /\ LabelsAreRoutes

C30_Witness ==
    \E s, t \in Slots :
        /\ reqs[s].pc = "done" /\ reqs[s].path = "/other" /\ reqs[s].method = "POST"
        /\ requestCounter = (<<"POST", "/", "200">> :> 1)
        /\ reqs[t].pc = "done" /\ reqs[t].path = "//other" /\ reqs[t].written = 301


Checked == 1 .. Len(probe.services)

\* C29: a dependency is reported healthy exactly when its health GET
\* returned without error and with status 200; the overall status is
\* "degraded" exactly when at least one checked dependency is unhealthy and
\* "healthy" otherwise, also for an empty list of dependencies.
C29_HealthyIff200AndDegradedIffAny ==
    /\ \A i \in Checked :
         /\ probe.services[i] \in {"healthy", "unhealthy"}
         /\ probe.services[i] = "healthy" <=>
              (~probe.results[i].err /\ probe.results[i].code = 200)
    /\ probe.overall # "" =>
         /\ Len(probe.services) = Len(probe.results)
         /\ probe.overall \in {"healthy", "degraded"}
         /\ probe.overall = "degraded" <=> \E i \in Checked : probe.services[i] = "unhealthy"
         /\ probe.results = <<>> => probe.overall = "healthy"

C29_Witness ==
    /\ probe.on
    /\ probe.results = <<[err |-> FALSE, code |-> 200], [err |-> FALSE, code |-> 204]>>
    /\ probe.services = <<"healthy", "unhealthy">>
    /\ probe.overall = "degraded"


(***************************************************************************)
(* Properties of the BMI service (SpecBMI).                                *)
(***************************************************************************)
AtLeast(x, t) == (x.k = "num" /\ x.v >= t) \/ x.k = "inf"
Entries == {bmiReqs[g].entry : g \in {h \in Slots : bmiReqs[h].entry # <<>>}}

\* C26: the category of a calculation is Underweight exactly for BMI < 18.5,
\* Normal weight exactly for 18.5 <= BMI < 25, Overweight exactly for
\* 25 <= BMI < 30 and Obese exactly for BMI >= 30.
C26_CategoryRanges ==
    \A e \in Entries :
        /\ e.category = "Underweight" <=> LessThan(e.bmi, 1850)
        /\ e.category = "Normal weight" <=>
             (AtLeast(e.bmi, 1850) /\ LessThan(e.bmi, 2500))
        /\ e.category = "Overweight" <=>
             (AtLeast(e.bmi, 2500) /\ LessThan(e.bmi, 3000))
        /\ e.category = "Obese" <=> AtLeast(e.bmi, 3000)

\* The same for the calculations whose BMI is a number.
CategoryRangesOfNumbers ==
    \A e \in Entries :
        e.bmi.k = "num" =>
            e.category = CASE e.bmi.v < 1850 -> "Underweight"
                           [] e.bmi.v >= 1850 /\ e.bmi.v < 2500 -> "Normal weight"
                           [] e.bmi.v >= 2500 /\ e.bmi.v < 3000 -> "Overweight"
                           [] e.bmi.v >= 3000 -> "Obese"

BMIDone(g) == bmiReqs[g].pc = "done"

\* C27: the history is the sequence of the successful calculations in
\* completion order, one entry each, also when they run concurrently; a
\* completed GET /history reports the number of entries it read; a request
\* answered 400 has appended nothing.
C27_HistoryOneEntryPerCalculation ==
    /\ calculations = completed
    /\ \A g \in Slots :
         /\ (BMIDone(g) /\ bmiReqs[g].op = "history") =>
              /\ bmiReqs[g].body.written
              /\ bmiReqs[g].body.count = Len(bmiReqs[g].local)
         /\ (BMIDone(g) /\ bmiReqs[g].status = 400) => bmiReqs[g].entry = <<>>


(***************************************************************************)
(* Properties of the gateway's routing (SpecGateway).                      *)
(***************************************************************************)
Answered(method, path) == gw.stage = "done" /\ gw.method = method /\ gw.path = path
ReachedOp(service, op) == gw.target = service /\ gw.op = op /\ gw.status = 200

\* C25: through the gateway, POST /api/calculate reaches the BMI service's
\* calculate operation and GET /api/bmi/{weight}/{height} reaches its quick
\* calculation; GET /health and the proxied health endpoints reach their
\* documented operations too.
C25_DocumentedEndpointsReachOperations ==
    /\ Answered("POST", <<"/api", "/calculate">>) => ReachedOp("bmi-service", "calculate")
    /\ Answered("GET", <<"/api", "/bmi", "/70", "/1.75">>) =>
         ReachedOp("bmi-service", "quickCalculate")
    /\ Answered("GET", <<"/health">>) => ReachedOp("gateway", "health")
    /\ Answered("GET", <<"/api", "/health">>) => ReachedOp("health-service", "health")
    /\ Answered("GET", <<"/api", "/health", "/services">>) =>
         ReachedOp("health-service", "servicesHealth")

\* What the gateway does reach: the health endpoints as documented, and the
\* BMI operations under the doubled prefixes /api/bmi/calculate and
\* /api/bmi/bmi/{weight}/{height}.
GatewayReaches ==
    /\ Answered("GET", <<"/health">>) => ReachedOp("gateway", "health")
    /\ Answered("GET", <<"/api", "/health">>) => ReachedOp("health-service", "health")
    /\ Answered("GET", <<"/api", "/health", "/services">>) =>
         ReachedOp("health-service", "servicesHealth")
    /\ Answered("POST", <<"/api", "/bmi", "/calculate">>) =>
         ReachedOp("bmi-service", "calculate")
    /\ Answered("POST", <<"/api", "/calculate">>) =>
         gw.target = "gateway" /\ gw.status = 404
    /\ Answered("GET", <<"/api", "/bmi", "/70", "/1.75">>) =>
         gw.target = "bmi-service" /\ gw.status = 404


====
